---- MODULE Spec2Model ----
(***************************************************************************)
(* TopHat GPU monitor: the sampler / history engine of GpuMonitor.         *)
(*                                                                         *)
(* Two variants of the monitor are in the repository and both are          *)
(* modelled; `variant' selects one at construction:                        *)
(*   "gpu"    lib/gpu.js        parseInt(File.readSync()), no try/catch    *)
(*   "legacy" unnamed/part_000  Gio load_contents + contentStr / 100       *)
(*                               inside try/catch                          *)
(*                                                                         *)
(* File contents are sequences of one-character strings so that trim,      *)
(* parseInt and the Number coercion of `/' are computed, not assumed.      *)
(* A number is a record [n, d] standing for the value n/d (d = 1 for an    *)
(* integer, d = 100 for the quotient contentStr / 100); NaN is 0/0.        *)
(***************************************************************************)
EXTENDS Integers, Sequences, FiniteSets, TLC

\* ------------------------------------------------------------------ bounds
\* Capacity of the history buffer.  The program takes it from
\* Config.HISTORY_MAX_SIZE (lib/config.js); a small value is checked here.
HISTORY_MAX_SIZE == 2

\* Samples pushed after a start() beyond the capacity of the buffer.
MaxExtra == 2

\* Largest source id GLib.timeout_add hands out in the model.
MaxTimerId == 2

MaxSamples == HISTORY_MAX_SIZE + MaxExtra

\* ------------------------------------------------------------ file contents
\* What a metric pseudo-file can hold when it is read.
Contents ==
    { <<"2", "8", "\n">>,      \* "28\n"
      <<"1", "5", "0">>,       \* "150"
      << >>,                   \* ""  (empty file)
      <<"a", "b", "c">> }      \* "abc"

\* A read either returns the content of the file or fails
\* (I/O error, missing device node).
IOError == [err |-> TRUE, text |-> << >>]

ReadOutcomes == {[err |-> FALSE, text |-> c] : c \in Contents} \cup {IOError}

\* The second file (mem_busy_percent) only shows in the labels and the meter,
\* so one content of each kind is enough for it.
MemOutcomes ==
    {[err |-> FALSE, text |-> c] : c \in {<<"8", "7", "\n">>, <<"a", "b", "c">>}}
        \cup {IOError}

Digits == {"0", "1", "2", "3", "4", "5", "6", "7", "8", "9"}

DigitVal(c) ==
    CASE c = "0" -> 0 [] c = "1" -> 1 [] c = "2" -> 2 [] c = "3" -> 3
      [] c = "4" -> 4 [] c = "5" -> 5 [] c = "6" -> 6 [] c = "7" -> 7
      [] c = "8" -> 8 [] c = "9" -> 9

WhiteSpace == {" ", "\n", "\t", "\r"}

NaN == [n |-> 0, d |-> 0]

Num(v) == [n |-> v, d |-> 1]

IsNaN(x) == x.d = 0

RECURSIVE SkipWhiteSpace(_)
SkipWhiteSpace(s) ==
    IF s # << >> /\ Head(s) \in WhiteSpace THEN SkipWhiteSpace(Tail(s)) ELSE s

RECURSIVE DropTrailingWhiteSpace(_)
DropTrailingWhiteSpace(s) ==
    IF s # << >> /\ s[Len(s)] \in WhiteSpace
    THEN DropTrailingWhiteSpace(SubSeq(s, 1, Len(s) - 1))
    ELSE s

\* String.prototype.trim
trim(s) == DropTrailingWhiteSpace(SkipWhiteSpace(s))

\* The longest prefix of s made of decimal digits.
RECURSIVE DigitPrefix(_)
DigitPrefix(s) ==
    IF s # << >> /\ Head(s) \in Digits
    THEN <<Head(s)>> \o DigitPrefix(Tail(s))
    ELSE << >>

RECURSIVE DecimalValue(_)
DecimalValue(ds) ==
    IF ds = << >> THEN 0
    ELSE 10 * DecimalValue(SubSeq(ds, 1, Len(ds) - 1)) + DigitVal(ds[Len(ds)])

\* parseInt(string): leading white space skipped, optional sign, then the
\* longest run of digits; NaN when there is none.  Trailing text is ignored.
parseInt(s) ==
    LET t    == SkipWhiteSpace(s)
        neg  == t # << >> /\ Head(t) = "-"
        body == IF t # << >> /\ Head(t) \in {"-", "+"} THEN Tail(t) ELSE t
        ds   == DigitPrefix(body)
    IN  IF ds = << >> THEN NaN
        ELSE Num(IF neg THEN 0 - DecimalValue(ds) ELSE DecimalValue(ds))

\* ToNumber(string), the coercion `/' applies to a string operand: the
\* trimmed text must be a numeric literal as a whole; the empty string is 0.
\* (Decimal integers only: no fraction, exponent or radix prefix occurs in
\* Contents.)
ToNumber(s) ==
    LET t    == trim(s)
        neg  == t # << >> /\ Head(t) = "-"
        body == IF t # << >> /\ Head(t) \in {"-", "+"} THEN Tail(t) ELSE t
        ds   == DigitPrefix(body)
    IN  IF t = << >> THEN Num(0)
        ELSE IF ds = << >> \/ ds # body THEN NaN
        ELSE Num(IF neg THEN 0 - DecimalValue(ds) ELSE DecimalValue(ds))

\* x / 100
Div100(x) == IF IsNaN(x) THEN NaN ELSE [n |-> x.n, d |-> x.d * 100]

\* ------------------------------------------------------------------- state
VARIABLES
    variant,        \* "gpu" (lib/gpu.js) or "legacy" (unnamed/part_000)
    visible,        \* the actor's `visible' property
    history,        \* this.history
    refreshTimer,   \* this.refreshTimer, 0 when no handle is stored
    sources,        \* ids of the timeout sources live in the GLib main loop
    nextId,         \* the id GLib.timeout_add returns next
    destroyed,      \* destroy() has run
    thrown,         \* the last handler let an exception reach its caller
    lastOp,         \* the last handler that ran and what it met
    arrived,        \* every sample pushed since the buffer was last cleared
    chart,          \* what the last repaint of historyChart drew
    discovery,      \* one call of findGpuDevices
    device          \* one AmdGpu object and its name lookups

vars == <<variant, visible, history, refreshTimer, sources, nextId,
          destroyed, thrown, lastOp, arrived, chart, discovery, device>>

\* Nothing drawn: the cairo context is disposed at the end of a repaint.
NoChart == [width |-> 0, height |-> 0, path |-> << >>]

\* What one read of a metric file met.
Kind(o) ==
    IF o.err THEN "ioerror"
    ELSE IF trim(o.text) # << >> /\ DigitPrefix(trim(o.text)) = trim(o.text)
         THEN "numeric"
    ELSE "malformed"

Op(name, k1, k2) ==
    [op |-> name, r1 |-> k1, r2 |-> k2,
     wasRunning |-> refreshTimer # 0,
     wasLive    |-> sources # {},
     wasFull    |-> Len(history) >= HISTORY_MAX_SIZE,
     wasEmpty   |-> history = << >>]

\* --------------------------------------------------------------- the buffer
\* Evict with the newest entry dropped (pop for shift).
RECURSIVE EvictNewest(_)
EvictNewest(h) ==
    IF Len(h) >= HISTORY_MAX_SIZE
    THEN EvictNewest(SubSeq(h, 1, Len(h) - 1))
    ELSE h

\* Evict with the loop test `>' for `>='.
RECURSIVE EvictOffByOne(_)
EvictOffByOne(h) ==
    IF Len(h) > HISTORY_MAX_SIZE THEN EvictOffByOne(Tail(h)) ELSE h

\* while (this.history.length >= Config.HISTORY_MAX_SIZE) this.history.shift();
RECURSIVE Evict(_)
Evict(h) == IF Len(h) >= HISTORY_MAX_SIZE THEN Evict(Tail(h)) ELSE h

\* ... followed by this.history.push(x)
Push(h, x) == Append(Evict(h), x)

\* ------------------------------------------------------------ reading files
\* FileModule.File(path).readSync() of lib/file.js: the content of the file,
\* or an exception when the file cannot be read.
readSync(o) ==
    IF o.err THEN [threw |-> TRUE, text |-> << >>]
    ELSE [threw |-> FALSE, text |-> o.text]

\* Gio.File.load_contents + ByteArray.toString(content).trim() of the legacy
\* variant; load_contents raises a GLib.Error when the file cannot be read.
load_contents(o) ==
    IF o.err THEN [threw |-> TRUE, text |-> << >>]
    ELSE [threw |-> FALSE, text |-> trim(o.text)]

\* --------------------------------------------------------- _refreshCharts
\* The result of one call: the buffer afterwards and how the call ended:
\* "true" (return true), "undefined" (bare return) or "throw".

\* The call ended before the buffer was touched.
Aborted(h, how) ==
    [history |-> h, ret |-> how, pushed |-> FALSE, sample |-> NaN]

\* The call went through: x pushed, `return true'.
Sampled(h, x) ==
    [history |-> Push(h, x), ret |-> "true", pushed |-> TRUE, sample |-> x]

\* lib/gpu.js: both reads happen before anything is stored; neither is
\* guarded, so an exception of readSync leaves the function.
refreshChartsGpu(h, o1, o2) ==
    LET f1 == readSync(o1)
        f2 == readSync(o2)
    IN  IF f1.threw THEN Aborted(h, "throw")
        ELSE IF f2.threw THEN Aborted(h, "throw")
        ELSE Sampled(h, parseInt(f1.text))

\* refreshChartsLegacy with the `return' of the second catch block missing:
\* the sample of the first file is stored although the second read failed.
refreshChartsLegacyNoReturn(h, o1, o2) ==
    LET f1 == load_contents(o1)
    IN  IF f1.threw THEN Aborted(h, "undefined")
        ELSE Sampled(h, Div100(ToNumber(f1.text)))

\* unnamed/part_000: each read sits in its own try/catch that logs and
\* returns without a value.
refreshChartsLegacy(h, o1, o2) ==
    LET f1 == load_contents(o1)
        f2 == load_contents(o2)
    IN  IF f1.threw THEN Aborted(h, "undefined")
        ELSE IF f2.threw THEN Aborted(h, "undefined")
        ELSE Sampled(h, Div100(ToNumber(f1.text)))

refreshCharts(h, o1, o2) ==
    IF variant = "gpu" THEN refreshChartsGpu(h, o1, o2)
    ELSE refreshChartsLegacy(h, o1, o2)

\* The second file is read only when the first read returned.
SecondKind(o1, o2) == IF o1.err THEN "none" ELSE Kind(o2)

\* ------------------------------------------------------------------ timers
\* startTimers without the handle guard: every call adds a source.
startTimersNoGuard ==
    /\ nextId <= MaxTimerId
    /\ history' = << >>
    /\ arrived' = << >>
    /\ refreshTimer' = nextId
    /\ sources' = sources \cup {nextId}
    /\ nextId' = nextId + 1

\* startTimers that re-arms a running timer: the old source is removed and a
\* new one added, so the handle changes.
startTimersRearm ==
    /\ nextId <= MaxTimerId
    /\ history' = << >>
    /\ arrived' = << >>
    /\ refreshTimer' = nextId
    /\ sources' = (sources \ {refreshTimer}) \cup {nextId}
    /\ nextId' = nextId + 1

\* startTimers with the buffer cleared inside the guard only.
startTimersClearInsideGuard ==
    /\ refreshTimer # 0 \/ nextId <= MaxTimerId
    /\ IF refreshTimer = 0
       THEN /\ history' = << >>
            /\ arrived' = << >>
            /\ refreshTimer' = nextId
            /\ sources' = sources \cup {nextId}
            /\ nextId' = nextId + 1
       ELSE UNCHANGED <<history, arrived, refreshTimer, sources, nextId>>

\* _startTimers: the buffer is cleared first, then a timeout source is added
\* unless a handle is already stored.
startTimers ==
    /\ refreshTimer # 0 \/ nextId <= MaxTimerId
    /\ history' = << >>
    /\ arrived' = << >>
    /\ IF refreshTimer = 0
       THEN /\ refreshTimer' = nextId
            /\ sources' = sources \cup {nextId}
            /\ nextId' = nextId + 1
       ELSE UNCHANGED <<refreshTimer, sources, nextId>>

\* stopTimers that resets the handle without GLib.source_remove.
stopTimersKeepSource ==
    /\ refreshTimer' = 0
    /\ UNCHANGED <<sources, history, arrived, nextId>>

\* _stopTimers: GLib.source_remove(this.refreshTimer) and the handle reset,
\* only when a handle is stored.
stopTimers ==
    /\ IF refreshTimer # 0
       THEN /\ sources' = sources \ {refreshTimer}
            /\ refreshTimer' = 0
       ELSE UNCHANGED <<refreshTimer, sources>>
    /\ UNCHANGED <<history, arrived, nextId>>

\* ---------------------------------------------------------- _repaintHistory
\* Surface sizes historyChart.get_surface_size() returns, <<width, height>>.
ChartSizes == {<<30, 25>>, <<45, 40>>}

\* Coordinates are exact fractions [n, d]; NaN is 0/0 as above.
Frac(a, b) == [n |-> a, d |-> b]

\* k * x for an integer k
Scale(k, x) == IF IsNaN(x) THEN NaN ELSE [n |-> k * x.n, d |-> x.d]

Plus(x, y) ==
    IF IsNaN(x) \/ IsNaN(y) THEN NaN
    ELSE [n |-> x.n * y.d + y.n * x.d, d |-> x.d * y.d]

Minus(x, y) == Plus(x, Scale(0 - 1, y))

\* x and y are the same number (NaN equals nothing).
SameNumber(x, y) == ~IsNaN(x) /\ ~IsNaN(y) /\ x.n * y.d = y.n * x.d

\* x <= y for numbers with a positive denominator
AtMost(x, y) == ~IsNaN(x) /\ ~IsNaN(y) /\ x.n * y.d <= y.n * x.d

\* The least integer >= a / b, for b > 0.
CeilDiv(a, b) == 0 - ((0 - a) \div b)

\* The stored quotients q = p / 100 and heights h for which the binary64
\* product q * h comes out above the exact value p * h / 100, so that
\* Math.ceil gives one more: 0.28 * 25 is 7.000000000000001.  All pairs
\* with 0 <= p <= 200 and h a height of ChartSizes.
ProductRoundsUp == {<<28, 25>>, <<56, 25>>, <<112, 25>>}

\* lib/gpu.js: Math.ceil(this.history[i] * height / 100); the buffer holds
\* the integer, the product is exact and the quotient correctly rounded.
pointHeightGpu(v, height) ==
    IF IsNaN(v) THEN NaN ELSE Num(CeilDiv(v.n * height, v.d * 100))

\* unnamed/part_000: Math.ceil(this.history[i] * height); the buffer holds
\* the binary64 quotient p / 100.
pointHeightLegacy(v, height) ==
    IF IsNaN(v) THEN NaN
    ELSE Num(CeilDiv(v.n * height, v.d)
             + (IF <<v.n, height>> \in ProductRoundsUp THEN 1 ELSE 0))

pointHeight(v, height) ==
    IF variant = "gpu" THEN pointHeightGpu(v, height)
    ELSE pointHeightLegacy(v, height)

\* repaintHistory with xStart one spacing too far left.
repaintHistoryShifted(h, width, height) ==
    LET pointSpacing == Frac(width, HISTORY_MAX_SIZE - 1)
        xStart == Scale(HISTORY_MAX_SIZE - Len(h) - 1, pointSpacing)
    IN  <<[x |-> xStart, y |-> Num(height)]>>
        \o [i \in 1..Len(h) |->
              [x |-> Plus(xStart, Scale(i - 1, pointSpacing)),
               y |-> Minus(Num(height), pointHeight(h[i], height))]]
        \o <<[x |-> Plus(xStart, Scale(Len(h) - 1, pointSpacing)),
              y |-> Num(height)]>>

\* The vertices _repaintHistory passes to the context: moveTo(xStart, height),
\* one lineTo per sample, and the closing lineTo on the bottom edge.
repaintHistory(h, width, height) ==
    LET pointSpacing == Frac(width, HISTORY_MAX_SIZE - 1)
        xStart == Scale(HISTORY_MAX_SIZE - Len(h), pointSpacing)
    IN  <<[x |-> xStart, y |-> Num(height)]>>
        \o [i \in 1..Len(h) |->
              [x |-> Plus(xStart, Scale(i - 1, pointSpacing)),
               y |-> Minus(Num(height), pointHeight(h[i], height))]]
        \o <<[x |-> Plus(xStart, Scale(Len(h) - 1, pointSpacing)),
              y |-> Num(height)]>>

\* ------------------------------------------------- discovery and devices
\* Largest number of lookupName() calls made on the device.
MaxLookups == 3

basePath ==
    <<"/", "s", "y", "s", "/", "c", "l", "a", "s", "s", "/", "d", "r", "m", "/">>

card0 == <<"c", "a", "r", "d", "0">>

card1 == <<"c", "a", "r", "d", "1">>

card10 == <<"c", "a", "r", "d", "1", "0">>

renderD128 == <<"r", "e", "n", "d", "e", "r", "D", "1", "2", "8">>

card0DP1 == <<"c", "a", "r", "d", "0", "-", "D", "P", "-", "1">>

\* Entries /sys/class/drm/ can hold.
DirNames == {card0, card1, card10, renderD128, card0DP1}

\* What gpu_busy_percent of an entry holds when it is probed.
UsageOutcomes ==
    {[err |-> FALSE, text |-> c] : c \in {<<"2", "8", "\n">>, <<"a", "b", "c">>}}
        \cup {IOError}

\* /^card[0-9]$/.test(entry)
cardPattern(entry) ==
    /\ Len(entry) = 5
    /\ SubSeq(entry, 1, 4) = <<"c", "a", "r", "d">>
    /\ entry[5] \in Digits

\* The value null.
Null == [isNull |-> TRUE, text |-> << >>]

\* A string value.
Str(t) == [isNull |-> FALSE, text |-> t]

\* AmdGpu.getUsage(): parseInt of the content readSync returns; an exception
\* of readSync leaves the method.
getUsage(o) ==
    LET f == readSync(o)
    IN  IF f.threw THEN [threw |-> TRUE, value |-> NaN]
        ELSE [threw |-> FALSE, value |-> parseInt(f.text)]

\* GpuDevice.isOK(): try { return this.getUsage() !== null } catch { false }.
\* A number, NaN included, is not null.
isOK(o) ==
    LET u == getUsage(o)
    IN  IF u.threw THEN FALSE ELSE u.value # Null

\* GpuDevice.getName(): this.name || this.sysfsPath; null and the empty
\* string are falsy.
getName(d) ==
    IF d.name.isNull \/ d.name.text = << >> THEN d.sysfsPath ELSE d.name.text

\* No findGpuDevices call made; dir is what File(basePath).list() will give,
\* usage what each probe will read.
IdleDiscovery ==
    [pc |-> "idle", dir |-> [err |-> FALSE, entries |-> {}],
     usage |-> [e \in DirNames |-> IOError],
     candidates |-> {}, collection |-> {}]

\* new AmdGpu(sysfsPath): name = null; no lookup made.
NewDevice(path, usage) ==
    [sysfsPath |-> path, name |-> Null, usage |-> usage,
     pc |-> "idle", promise |-> "none", value |-> Null,
     lookups |-> 0, resolvedOnce |-> FALSE]

IdleDevice == NewDevice(basePath \o card0, IOError)

\* ---------------------------------------------------------- findGpuDevices
\* The entries for which findGpuDevices constructs an AmdGpu.
Candidates(entries) == {e \in entries : cardPattern(e)}

\* The Map findGpuDevices resolves with, as the set of its keys.
Collection(entries, usage) ==
    {basePath \o e : e \in {c \in Candidates(entries) : isOK(usage[c])}}

\* findGpuDevices(): the promise is created and list() is under way.
FindGpuDevices ==
    /\ discovery.pc = "idle"
    /\ discovery' = [discovery EXCEPT !.pc = "listing"]
    /\ UNCHANGED <<variant, visible, history, refreshTimer, sources, nextId,
                   destroyed, thrown, lastOp, arrived, chart, device>>

\* list() resolved: the then-callback filters, probes and resolves.
ListResolved ==
    /\ discovery.pc = "listing"
    /\ ~discovery.dir.err
    /\ discovery' =
           [discovery EXCEPT
              !.pc = "resolved",
              !.candidates = Candidates(discovery.dir.entries),
              !.collection = Collection(discovery.dir.entries, discovery.usage)]
    /\ UNCHANGED <<variant, visible, history, refreshTimer, sources, nextId,
                   destroyed, thrown, lastOp, arrived, chart, device>>

\* list() rejected: the catch-callback rejects with the same error.
ListRejected ==
    /\ discovery.pc = "listing"
    /\ discovery.dir.err
    /\ discovery' = [discovery EXCEPT !.pc = "rejected"]
    /\ UNCHANGED <<variant, visible, history, refreshTimer, sources, nextId,
                   destroyed, thrown, lastOp, arrived, chart, device>>

\* ------------------------------------------------------ AmdGpu.lookupName
\* What lspci can print on stdout.
Outputs ==
    { <<"S", ":", "\t", "0", "\n", "D", "e", "v", "i", "c", "e", ":", "\t", "A", "\n">>,
      <<"S", ":", "\t", "0", "\n">>,
      <<"D", "e", "v", "i", "c", "e", ":", "\t", "A", "\n",
        "D", "e", "v", "i", "c", "e", ":", "\t", "B", "\n">>,
      <<"D", "e", "v", "i", "c", "e", ":", "\n">> }

\* String.prototype.split('\n')
RECURSIVE split(_)
split(s) ==
    IF \A i \in 1..Len(s) : s[i] # "\n" THEN <<s>>
    ELSE LET k == CHOOSE i \in 1..Len(s) :
                      s[i] = "\n" /\ \A j \in 1..(i - 1) : s[j] # "\n"
         IN  <<SubSeq(s, 1, k - 1)>> \o split(SubSeq(s, k + 1, Len(s)))

\* line.substring(a, b) with 0-based a and exclusive b, clipped to the line
substring(line, a, b) ==
    SubSeq(line, a + 1, IF b < Len(line) THEN b ELSE Len(line))

\* line.substring(0, 7) == "Device:"
isDeviceLine(line) ==
    substring(line, 0, 7) = <<"D", "e", "v", "i", "c", "e", ":">>

\* The for loop over the lines: every Device: line assigns this.name and
\* calls resolve(this.name); only the first resolve settles the promise.
RECURSIVE scanLines(_, _)
scanLines(d, lines) ==
    IF lines = << >> THEN d
    ELSE IF isDeviceLine(Head(lines))
    THEN LET nm == Str(substring(Head(lines), 8, Len(Head(lines))))
         IN  scanLines([d EXCEPT
                          !.name = nm,
                          !.promise = IF d.promise = "pending"
                                      THEN "resolved" ELSE d.promise,
                          !.value = IF d.promise = "pending"
                                    THEN nm ELSE d.value,
                          !.resolvedOnce = TRUE],
                       Tail(lines))
    ELSE scanLines(d, Tail(lines))

\* communicateThen with the name taken from the output before the exit
\* status is looked at.
communicateThenEager(d, successful, out) ==
    IF successful
    THEN [scanLines(d, split(out)) EXCEPT !.pc = "finished"]
    ELSE [d EXCEPT !.name = Str(out), !.promise = "rejected",
                   !.pc = "finished"]

\* The then-callback of communicate_utf8_async: the lines are scanned when
\* the process was successful, the promise is rejected otherwise.
communicateThen(d, successful, out) ==
    IF successful
    THEN [scanLines(d, split(out)) EXCEPT !.pc = "finished"]
    ELSE [d EXCEPT !.promise = "rejected", !.pc = "finished"]

\* lookupName(): a new promise; the vendor and device files are read and
\* lspci is spawned inside try/catch, an exception rejects the promise.
LookupName(idRead, spawnOK) ==
    /\ device.pc \in {"idle", "finished"}
    /\ device.lookups < MaxLookups
    /\ device' =
           IF readSync(idRead).threw \/ ~spawnOK
           THEN [device EXCEPT !.pc = "finished", !.promise = "rejected",
                               !.value = Null, !.lookups = @ + 1]
           ELSE [device EXCEPT !.pc = "running", !.promise = "pending",
                               !.value = Null, !.lookups = @ + 1]
    /\ UNCHANGED <<variant, visible, history, refreshTimer, sources, nextId,
                   destroyed, thrown, lastOp, arrived, chart, discovery>>

\* communicate_utf8_async resolved with the output of the process.
CommunicateResolved(successful, out) ==
    /\ device.pc = "running"
    /\ device' = communicateThen(device, successful, out)
    /\ UNCHANGED <<variant, visible, history, refreshTimer, sources, nextId,
                   destroyed, thrown, lastOp, arrived, chart, discovery>>

\* communicate_utf8_async rejected: the catch-callback rejects.
CommunicateRejected ==
    /\ device.pc = "running"
    /\ device' = [device EXCEPT !.promise = "rejected", !.pc = "finished"]
    /\ UNCHANGED <<variant, visible, history, refreshTimer, sources, nextId,
                   destroyed, thrown, lastOp, arrived, chart, discovery>>

\* ----------------------------------------------------------------- actions
\* _init: history = new Array(0), refreshTimer = 0, the notify::visible
\* handler connected, then _startTimers().  In lib/gpu.js `visible' is bound
\* to the show-gpu setting before the handler is connected.
InitMonitor ==
    /\ variant \in {"gpu", "legacy"}
    /\ visible \in (IF variant = "gpu" THEN BOOLEAN ELSE {TRUE})
    /\ history = << >>
    /\ refreshTimer = 1
    /\ sources = {1}
    /\ nextId = 2
    /\ destroyed = FALSE
    /\ thrown = FALSE
    /\ lastOp = [op |-> "init", r1 |-> "none", r2 |-> "none",
                 wasRunning |-> FALSE, wasLive |-> FALSE,
                 wasFull |-> FALSE, wasEmpty |-> TRUE]
    /\ arrived = << >>
    /\ chart = NoChart

\* The monitor alone: no discovery and no name lookup under way.
Init ==
    /\ InitMonitor
    /\ discovery = IdleDiscovery
    /\ device = IdleDevice

\* start(): a direct call of _startTimers.
Start ==
    /\ ~destroyed
    /\ startTimers
    /\ lastOp' = Op("start", "none", "none")
    /\ thrown' = FALSE
    /\ UNCHANGED <<variant, visible, destroyed>>
    /\ chart' = NoChart
    /\ UNCHANGED <<discovery, device>>

\* stop(): a direct call of _stopTimers.
Stop ==
    /\ ~destroyed
    /\ stopTimers
    /\ lastOp' = Op("stop", "none", "none")
    /\ thrown' = FALSE
    /\ UNCHANGED <<variant, visible, destroyed>>
    /\ chart' = NoChart
    /\ UNCHANGED <<discovery, device>>

\* The notify::visible handler, run when the property changes to v.
NotifyVisible(v) ==
    /\ ~destroyed
    /\ v # visible
    /\ visible' = v
    /\ IF v THEN startTimers ELSE stopTimers
    /\ lastOp' = Op(IF v THEN "show" ELSE "hide", "none", "none")
    /\ thrown' = FALSE
    /\ UNCHANGED <<variant, destroyed>>
    /\ chart' = NoChart
    /\ UNCHANGED <<discovery, device>>

\* The timeout callback () => this._refreshCharts() of source id.  GLib keeps
\* a source whose callback returns true and removes it otherwise; a callback
\* that throws counts as one that returned false.
Tick(id, o1, o2) ==
    /\ ~destroyed
    /\ id \in sources
    /\ LET res == refreshCharts(history, o1, o2)
       IN  /\ res.pushed => Len(arrived) < MaxSamples
           /\ history' = res.history
           /\ arrived' = IF res.pushed THEN Append(arrived, res.sample)
                         ELSE arrived
           /\ sources' = IF res.ret = "true" THEN sources ELSE sources \ {id}
           /\ thrown' = (res.ret = "throw")
    /\ lastOp' = Op("tick", Kind(o1), SecondKind(o1, o2))
    /\ UNCHANGED <<variant, visible, refreshTimer, nextId, destroyed>>
    /\ chart' = NoChart
    /\ UNCHANGED <<discovery, device>>

\* refresh(): one sample outside the timer.
Refresh(o1, o2) ==
    /\ ~destroyed
    /\ LET res == refreshCharts(history, o1, o2)
       IN  /\ res.pushed => Len(arrived) < MaxSamples
           /\ history' = res.history
           /\ arrived' = IF res.pushed THEN Append(arrived, res.sample)
                         ELSE arrived
           /\ thrown' = (res.ret = "throw")
    /\ lastOp' = Op("refresh", Kind(o1), SecondKind(o1, o2))
    /\ UNCHANGED <<variant, visible, refreshTimer, sources, nextId, destroyed>>
    /\ chart' = NoChart
    /\ UNCHANGED <<discovery, device>>

\* destroy(): _stopTimers(), then the actor is destroyed.
Destroy ==
    /\ ~destroyed
    /\ stopTimers
    /\ destroyed' = TRUE
    /\ lastOp' = Op("destroy", "none", "none")
    /\ thrown' = FALSE
    /\ UNCHANGED <<variant, visible>>
    /\ chart' = NoChart
    /\ UNCHANGED <<discovery, device>>

\* The repaint handler of historyChart: () => this._repaintHistory().
Repaint(size) ==
    /\ ~destroyed
    /\ chart' = [width |-> size[1], height |-> size[2],
                 path |-> repaintHistory(history, size[1], size[2])]
    /\ lastOp' = Op("repaint", "none", "none")
    /\ thrown' = FALSE
    /\ UNCHANGED <<variant, visible, history, refreshTimer, sources, nextId,
                   destroyed, arrived, discovery, device>>

Next ==
    \/ Start
    \/ Stop
    \/ \E v \in BOOLEAN : NotifyVisible(v)
    \/ \E id \in sources, o1 \in ReadOutcomes, o2 \in MemOutcomes :
           Tick(id, o1, o2)
    \/ \E o1 \in ReadOutcomes, o2 \in MemOutcomes : Refresh(o1, o2)
    \/ Destroy

Spec == Init /\ [][Next]_vars

\* The monitor together with the repaints of its chart.
NextRender ==
    \/ Next
    \/ \E size \in ChartSizes : Repaint(size)

SpecRender == Init /\ [][NextRender]_vars

\* The monitor as the shell drives it: visibility changes, timer ticks,
\* refresh() and destroy(), without direct calls of the timer methods.
NextHost ==
    \/ \E v \in BOOLEAN : NotifyVisible(v)
    \/ \E id \in sources, o1 \in ReadOutcomes, o2 \in MemOutcomes :
           Tick(id, o1, o2)
    \/ \E o1 \in ReadOutcomes, o2 \in MemOutcomes : Refresh(o1, o2)
    \/ Destroy

SpecHost == Init /\ [][NextHost]_vars

\* One call of findGpuDevices on a directory and its usage files.
InitDiscovery ==
    /\ InitMonitor
    /\ variant = "gpu"
    /\ visible = TRUE
    /\ device = IdleDevice
    /\ \E err \in BOOLEAN, entries \in SUBSET DirNames,
          usage \in [DirNames -> UsageOutcomes] :
          /\ err => entries = {}
          /\ \A e \in {renderD128, card0DP1} : usage[e] = IOError
          /\ discovery = [IdleDiscovery EXCEPT
                             !.dir = [err |-> err, entries |-> entries],
                             !.usage = usage]

NextDiscovery ==
    \/ FindGpuDevices
    \/ ListResolved
    \/ ListRejected

SpecDiscovery == InitDiscovery /\ [][NextDiscovery]_vars

\* One AmdGpu and the name lookups made on it.
InitLookup ==
    /\ InitMonitor
    /\ variant = "gpu"
    /\ visible = TRUE
    /\ discovery = IdleDiscovery
    /\ \E usage \in UsageOutcomes :
          device = NewDevice(basePath \o card0, usage)

NextLookup ==
    \/ \E idRead \in {[err |-> FALSE, text |-> <<"0", "x", "1">>], IOError},
          spawnOK \in BOOLEAN : LookupName(idRead, spawnOK)
    \/ \E successful \in BOOLEAN, out \in Outputs :
          CommunicateResolved(successful, out)
    \/ CommunicateRejected

SpecLookup == InitLookup /\ [][NextLookup]_vars

\* The monitor of unnamed/part_000 alone.
InitLegacy == Init /\ variant = "legacy"

SpecLegacy == InitLegacy /\ [][Next]_vars

\* The monitor of lib/gpu.js alone.
InitGpu == Init /\ variant = "gpu"

SpecGpu == InitGpu /\ [][Next]_vars

TypeOK ==
    /\ variant \in {"gpu", "legacy"}
    /\ visible \in BOOLEAN
    /\ refreshTimer \in 0..MaxTimerId
    /\ sources \subseteq 1..MaxTimerId
    /\ nextId \in 1..(MaxTimerId + 1)
    /\ destroyed \in BOOLEAN
    /\ thrown \in BOOLEAN
    /\ Len(arrived) <= MaxSamples

\* ------------------------------------------------------------- properties
SampleOps == {"tick", "refresh"}
StartOps  == {"start", "show"}
StopOps   == {"stop", "hide", "destroy"}

\* The last n elements of s.
LastN(s, n) == SubSeq(s, Len(s) - n + 1, Len(s))

\* A read of the last sample failed with an I/O error or a missing file.
ReadFailed(op) == op.r1 = "ioerror" \/ op.r2 = "ioerror"

\* The last sample read empty or non-numeric content.
ReadMalformed(op) == op.r1 = "malformed" \/ op.r2 = "malformed"

\* Both reads of the last sample returned a decimal integer.
ReadOK(op) == op.r1 = "numeric" /\ op.r2 = "numeric"

\* C1: once more than HISTORY_MAX_SIZE samples have been pushed since the
\* last start(), the buffer is exactly the HISTORY_MAX_SIZE most recent of
\* them, in arrival order, oldest first.
C1_RetainsMostRecent ==
    Len(arrived) > HISTORY_MAX_SIZE
        => history = LastN(arrived, HISTORY_MAX_SIZE)

\* Two samples beyond the capacity arrived, all of them successful reads,
\* the last one by a timer tick.
C1_Witness ==
    /\ Len(arrived) = HISTORY_MAX_SIZE + 2
    /\ \A i \in 1..Len(arrived) : ~IsNaN(arrived[i])
    /\ arrived[1] # arrived[Len(arrived)]
    /\ lastOp.op = "tick"
    /\ ReadOK(lastOp)

\* C2: a tick whose read fails (I/O error, missing node, non-numeric
\* content) does not cancel the repeating timer: the source that fired is
\* still live afterwards.
C2_TimerSurvivesFailedTick ==
    [][(lastOp'.op = "tick" /\ (ReadFailed(lastOp') \/ ReadMalformed(lastOp')))
          => sources' = sources]_vars

\* C3: a sample whose read fails with an I/O error or a missing file, on the
\* first or on the second file, leaves the buffer as it was.
C3_FailedReadKeepsBuffer ==
    [][(lastOp'.op \in SampleOps /\ ReadFailed(lastOp'))
          => history' = history]_vars

\* The first read succeeded, the second failed, on a non-empty buffer.
C3_Witness ==
    /\ lastOp.op = "tick"
    /\ lastOp.r1 = "numeric"
    /\ lastOp.r2 = "ioerror"
    /\ ~lastOp.wasEmpty
    /\ history # << >>

\* C4: a sample that reads empty or non-numeric content is dropped: the
\* buffer is unchanged.
C4_MalformedDropped ==
    [][(lastOp'.op \in SampleOps /\ ReadMalformed(lastOp'))
          => history' = history]_vars

\* C5: at most one repeating timer is live, whatever start/stop calls were
\* made.
C5_AtMostOneTimer == Cardinality(sources) <= 1

\* start() was called while a timer was running.
C5_Witness ==
    /\ lastOp.op = "start"
    /\ lastOp.wasRunning
    /\ lastOp.wasLive
    /\ Cardinality(sources) = 1

\* C6 as stated: start() while running changes neither the handle nor the
\* buffer.
C6_StartWhileRunningNoEffect ==
    [][(lastOp'.op \in StartOps /\ lastOp'.wasRunning)
          => (refreshTimer' = refreshTimer /\ history' = history)]_vars

\* C6 amended: start() while running leaves the handle and the live timers
\* as they were and creates no timer; the buffer is cleared.
C6_StartWhileRunningKeepsTimer ==
    [][(lastOp'.op \in StartOps /\ lastOp'.wasRunning)
          => /\ refreshTimer' = refreshTimer
             /\ sources' = sources
             /\ nextId' = nextId
             /\ history' = << >>]_vars

\* start() ran with a handle stored and samples in the buffer.
C6_Witness ==
    /\ lastOp.op = "start"
    /\ lastOp.wasRunning
    /\ ~lastOp.wasEmpty
    /\ history = << >>
    /\ refreshTimer # 0

\* C7: start() always leaves the buffer empty; a successful sample never
\* clears it (the buffer is non-empty afterwards and no shorter).
C7_StartClearsSampleDoesNot ==
    [][/\ (lastOp'.op \in StartOps => history' = << >>)
       /\ (lastOp'.op \in SampleOps /\ ReadOK(lastOp'))
             => (history' # << >> /\ Len(history') >= Len(history))]_vars

\* start() ran on a non-empty buffer with no handle stored.
C7_Witness ==
    /\ lastOp.op = "start"
    /\ ~lastOp.wasRunning
    /\ ~lastOp.wasEmpty
    /\ history = << >>

\* C8: the buffer never holds more than HISTORY_MAX_SIZE samples.
C8_BufferBounded == Len(history) <= HISTORY_MAX_SIZE

\* A sample was pushed onto a full buffer.
C8_Witness ==
    /\ lastOp.op \in SampleOps
    /\ lastOp.wasFull
    /\ ~ReadFailed(lastOp)
    /\ Len(history) = HISTORY_MAX_SIZE

\* C9: stop() leaves no live timer and a zero handle; stop() with no handle
\* stored changes nothing; a tick only fires from a live timer, and once no
\* timer is live only a start brings one back.
C9_StopCancels ==
    [][/\ (lastOp'.op \in StopOps => (refreshTimer' = 0 /\ sources' = {}))
       /\ (lastOp'.op = "stop" /\ ~lastOp'.wasRunning)
             => UNCHANGED <<history, refreshTimer, sources, nextId>>
       /\ (lastOp'.op = "tick" => lastOp'.wasLive)
       /\ (sources = {} /\ sources' # {}) => lastOp'.op \in StartOps]_vars

\* stop() cancelled a live timer.
C9_Witness ==
    /\ lastOp.op = "stop"
    /\ lastOp.wasRunning
    /\ lastOp.wasLive
    /\ sources = {}
    /\ refreshTimer = 0

\* C10: no handler lets an exception reach its caller.
C10_NoEscalation == ~thrown

\* C11: every sample in the buffer is a percentage: an integer 0..100 in
\* lib/gpu.js, that integer over 100 in the legacy variant.
C11_SamplesArePercentages ==
    \A i \in 1..Len(history) :
        /\ ~IsNaN(history[i])
        /\ history[i].d = (IF variant = "gpu" THEN 1 ELSE 100)
        /\ 0 <= history[i].n
        /\ history[i].n <= 100

\* C15: a change to visible clears the buffer and leaves exactly one live
\* timer; a change to hidden leaves no live timer.
C15_VisibilityDrivesTimer ==
    [][/\ (lastOp'.op = "show"
             => (history' = << >> /\ Cardinality(sources') = 1))
       /\ (lastOp'.op = "hide" => sources' = {})]_vars

\* C16: the first x-coordinate of a repaint is
\* (HISTORY_MAX_SIZE - L) * (W / (HISTORY_MAX_SIZE - 1)), the first sample is
\* drawn there, and successive samples are W / (HISTORY_MAX_SIZE - 1) apart.
C16_FirstXAndSpacing ==
    lastOp.op = "repaint" =>
        LET L  == Len(history)
            sp == Frac(chart.width, HISTORY_MAX_SIZE - 1)
        IN  /\ Len(chart.path) = L + 2
            /\ SameNumber(chart.path[1].x,
                          Scale(HISTORY_MAX_SIZE - L, sp))
            /\ L >= 1 => SameNumber(chart.path[2].x, chart.path[1].x)
            /\ \A i \in 2..L :
                   SameNumber(Minus(chart.path[i + 1].x, chart.path[i].x), sp)

\* A partly filled buffer was drawn.
C16_Witness ==
    /\ lastOp.op = "repaint"
    /\ Len(history) >= 1
    /\ Len(history) < HISTORY_MAX_SIZE
    /\ chart.width > 0

\* C17: a sample of p percent is drawn at y = H - ceil(p * H / 100), in
\* both variants.
C17_SameYInBothVariants ==
    lastOp.op = "repaint" =>
        \A i \in 1..Len(history) :
            ~IsNaN(history[i]) =>
                chart.path[i + 1].y
                    = Num(chart.height
                          - CeilDiv(history[i].n * chart.height, 100))

\* C18: a handle is stored exactly when one timer is live, and the handle is
\* that timer's.
C18_HandleIffLiveTimer ==
    /\ (refreshTimer # 0) <=> (Cardinality(sources) = 1)
    /\ refreshTimer # 0 => sources = {refreshTimer}

\* C19: while the monitor is not visible no timer is live.
C19_HiddenMeansNoTimer == ~visible => sources = {}

\* `card' followed by one or more digits and nothing else.
IsCardN(entry) ==
    /\ Len(entry) >= 5
    /\ SubSeq(entry, 1, 4) = <<"c", "a", "r", "d">>
    /\ \A i \in 5..Len(entry) : entry[i] \in Digits

\* C12: the entries findGpuDevices treats as candidates are exactly those
\* named `card' plus digits.
C12_CandidatesAreCardN ==
    discovery.pc = "resolved" =>
        discovery.candidates = {e \in discovery.dir.entries : IsCardN(e)}

\* C13: a candidate is in the collection exactly when its usage probe read a
\* number without error.
C13_CollectionIsProbedOK ==
    discovery.pc = "resolved" =>
        \A e \in discovery.candidates :
            (basePath \o e) \in discovery.collection
                <=> Kind(discovery.usage[e]) = "numeric"

\* C14: while no lookup has resolved, getName() is the sysfs path; a lookup
\* that ends rejected leaves the cached name and isOK() as they were.
C14_NameBestEffort ==
    [][/\ ~device'.resolvedOnce => getName(device') = device'.sysfsPath
       /\ (device'.promise = "rejected" /\ device' # device)
             => /\ device'.name = device.name
                /\ isOK(device'.usage) = isOK(device.usage)]_vars

\* A lookup failed on a device whose name was never resolved.
C14_Witness ==
    /\ device.promise = "rejected"
    /\ device.pc = "finished"
    /\ device.lookups >= 1
    /\ ~device.resolvedOnce
    /\ getName(device) = device.sysfsPath

\* C20: once the subprocess of a lookup is done with, the promise of
\* lookupName is settled.
C20_LookupSettles ==
    device.pc = "finished" => device.promise \in {"resolved", "rejected"}

\* C21: once the callbacks of a lookup are done and its promise is resolved
\* with v, the cached name is v and getName() returns v.
C21_ResolvedValueIsName ==
    (device.pc = "finished" /\ device.promise = "resolved")
        => /\ device.name = device.value
           /\ getName(device) = device.value.text

\* C22: every vertex of a repaint lies inside the chart rectangle:
\* 0 <= x <= width and 0 <= y <= height.
C22_VerticesInsideChart ==
    lastOp.op = "repaint" =>
        \A i \in 1..Len(chart.path) :
            /\ AtMost(Num(0), chart.path[i].x)
            /\ AtMost(chart.path[i].x, Num(chart.width))
            /\ AtMost(Num(0), chart.path[i].y)
            /\ AtMost(chart.path[i].y, Num(chart.height))

====
